---- MODULE Spec2Model ----
(***************************************************************************)
(* Model of the padel rotation bot: the week-to-person resolver of         *)
(* src/src/rotation.py and the dispatcher of src/src/bot.py.               *)
(*                                                                         *)
(* Strings that the code takes apart or builds (week identifiers) are      *)
(* sequences of one-character strings, so that formatting and parsing are  *)
(* computed and not assumed.  Person names are opaque non-empty strings.   *)
(* Optional[T] is None or Some(v).                                         *)
(***************************************************************************)
EXTENDS Integers, Sequences, FiniteSets, TLC

VARIABLES
    schedule_data,   \* the dict returned by load_schedule_data
    clock,           \* the (year, week) isocalendar() reports for now
    week_string,     \* the week identifier handed to get_responsible_person
    result,          \* what get_responsible_person returned or raised
    coverage,        \* a call of get_vacation_coverage: its person and its return
    args,            \* the argparse.Namespace handed to main
    environ,         \* os.environ
    disk,            \* what reading the two JSON files gives
    config,          \* the dict returned by load_config
    pc,              \* main's position
    bot,             \* the telegram Bot, None in a dry run
    chat_id,
    message,         \* the text to deliver
    sent,            \* the calls of bot.send_message, in order
    logged,          \* the [DRY RUN] messages written to the log
    exit_code,       \* what main returned
    success,         \* what send_message returned
    called           \* the functions bot.py has called

rotation_vars == <<schedule_data, clock, week_string, result, coverage>>

main_vars == <<args, environ, disk, config, pc, bot, chat_id, message, sent, logged,
               exit_code, success, called>>

vars == <<rotation_vars, main_vars>>

(***************************************************************************)
(* Bounds of the model and constants of the program.                       *)
(***************************************************************************)
MaxRot == 3          \* longest default_rotation drawn
NumYears == 2        \* calendar years the clock ranges over, from 2025
Epoch == 2000        \* rotation.py:35
TestYear == 2025     \* bot.py:72, config.py:42
WeeksPerYear == 52   \* rotation.py:35

None == [some |-> FALSE]

Some(v) == [some |-> TRUE, val |-> v]

\* The outcome of a call: a return value, or the exception it raised.
Return(v) == [exc |-> "", val |-> v]

Raise(e) == [exc |-> e, val |-> None]

Pending == [exc |-> "pending", val |-> None]

Returned(r) == r.exc = ""

(***************************************************************************)
(* Python's int formatting and parsing, on character sequences.            *)
(***************************************************************************)
DigitChars == <<"0", "1", "2", "3", "4", "5", "6", "7", "8", "9">>

IsDigit(c) == \E i \in 1..10 : DigitChars[i] = c

DigitValue(c) == (CHOOSE i \in 1..10 : DigitChars[i] = c) - 1

RECURSIVE StrOfNat(_)
\* str(n) for n >= 0
StrOfNat(n) ==
    IF n < 10 THEN <<DigitChars[n + 1]>>
    ELSE StrOfNat(n \div 10) \o <<DigitChars[(n % 10) + 1]>>

\* format(n, "02d"): sign first, then zero padding up to a total width of 2
Format02d(n) ==
    IF n < 0 THEN <<"-">> \o StrOfNat(-n)
    ELSE IF n < 10 THEN <<"0">> \o StrOfNat(n)
    ELSE StrOfNat(n)

RECURSIVE NatOfDigits(_)
NatOfDigits(s) ==
    IF Len(s) = 0 THEN 0
    ELSE 10 * NatOfDigits(SubSeq(s, 1, Len(s) - 1)) + DigitValue(s[Len(s)])

AllDigits(s) == Len(s) > 0 /\ \A i \in 1..Len(s) : IsDigit(s[i])

\* int(s) for s without blanks or underscores: an optional minus sign and at least
\* one digit, else ValueError (None here)
PyInt(s) ==
    IF AllDigits(s) THEN Some(NatOfDigits(s))
    ELSE IF Len(s) > 1 /\ s[1] = "-" /\ AllDigits(Tail(s))
         THEN Some(0 - NatOfDigits(Tail(s)))
    ELSE None

RECURSIVE SplitDashW(_)
\* s.split("-W"): the pieces between the non-overlapping occurrences of "-W"
SplitDashW(s) ==
    LET hits == {i \in 1..(Len(s) - 1) : s[i] = "-" /\ s[i + 1] = "W"}
    IN  IF hits = {} THEN <<s>>
        ELSE LET i == CHOOSE k \in hits : \A j \in hits : k <= j
             IN  <<SubSeq(s, 1, i - 1)>> \o SplitDashW(SubSeq(s, i + 2, Len(s)))

\* f"{year}-W{week:02d}"
FormatWeek(year, week) == StrOfNat(year) \o <<"-", "W">> \o Format02d(week)

(***************************************************************************)
(* ISO week calendar, as datetime.isocalendar() reports it.                *)
(***************************************************************************)
\* weekday of 31 December of year y (0 = Sunday)
Dec31Weekday(y) == (y + (y \div 4) - (y \div 100) + (y \div 400)) % 7

\* a year has 53 ISO weeks when it ends on a Thursday or the one before on a Wednesday
WeeksInYear(y) == IF Dec31Weekday(y) = 4 \/ Dec31Weekday(y - 1) = 3 THEN 53 ELSE 52

Years == 2025..(2024 + NumYears)

\* every pair isocalendar() can report for a date of these years
IsoWeeks == {yw \in Years \X (1..53) : yw[2] <= WeeksInYear(yw[1])}

\* get_current_week_string at some instant of these years
get_current_week_string(yw) == FormatWeek(yw[1], yw[2])

\* the calendar week that directly follows yw
NextIsoWeek(yw) ==
    IF yw[2] < WeeksInYear(yw[1]) THEN <<yw[1], yw[2] + 1>> ELSE <<yw[1] + 1, 1>>

RECURSIVE AddIsoWeeks(_, _)
AddIsoWeeks(yw, n) == IF n = 0 THEN yw ELSE AddIsoWeeks(NextIsoWeek(yw), n - 1)

(***************************************************************************)
(* rotation.py                                                             *)
(***************************************************************************)
\* rotation[i] with Python's 0-based index; a negative i counts from the end
At(rotation, i) == IF i < 0 THEN rotation[Len(rotation) + i + 1] ELSE rotation[i + 1]

\* person in rotation
Contains(rotation, p) == \E i \in 1..Len(rotation) : rotation[i] = p

\* rotation.index(person): the first position holding person
IndexOf(rotation, p) ==
    (CHOOSE i \in 1..Len(rotation) :
        rotation[i] = p /\ \A j \in 1..(i - 1) : rotation[j] # p) - 1

\* a % b as Python computes it for b > 0: floored, the result is in 0..b-1
PyMod(a, b) == a % b

\* mapping.get(key): Some(value) when the key is present, else None
DictGet(mapping, key) ==
    IF key \in DOMAIN mapping THEN Some(mapping[key]) ELSE None

get_week_number(ws) ==
    LET parts == SplitDashW(ws)
    IN  IF Len(parts) < 2 THEN Raise("IndexError")
        ELSE IF PyInt(parts[2]) = None THEN Raise("ValueError")
        ELSE Return(PyInt(parts[2]).val)

\* mutant: counts 53 weeks to every year
get_total_weeks_since_epoch_53(ws) ==
    LET parts == SplitDashW(ws)
    IN  IF Len(parts) # 2 THEN Raise("ValueError")
        ELSE LET year_int == PyInt(parts[1])
                 week_int == PyInt(parts[2])
             IN  IF year_int = None \/ week_int = None THEN Raise("ValueError")
                 ELSE Return((year_int.val - Epoch) * (WeeksPerYear + 1) + week_int.val)

get_total_weeks_since_epoch(ws) ==
    LET parts == SplitDashW(ws)
    IN  IF Len(parts) # 2 THEN Raise("ValueError")
        ELSE LET year_int == PyInt(parts[1])
                 week_int == PyInt(parts[2])
             IN  IF year_int = None \/ week_int = None THEN Raise("ValueError")
                 ELSE Return((year_int.val - Epoch) * WeeksPerYear + week_int.val)

\* mutant: a person who is not in the rotation keeps the duty
get_vacation_coverage_KeepsAbsent(p, ws, sd) ==
    LET rotation == sd.default_rotation
    IN  IF ~Contains(rotation, p) THEN Some(p)
        ELSE Some(At(rotation, PyMod(IndexOf(rotation, p) + 1, Len(rotation))))

\* mutant: the cover is taken at the person's own index
get_vacation_coverage_NoAdvance(p, ws, sd) ==
    LET rotation == sd.default_rotation
    IN  IF ~Contains(rotation, p) THEN None
        ELSE Some(At(rotation, PyMod(IndexOf(rotation, p), Len(rotation))))

get_vacation_coverage(p, ws, sd) ==
    LET rotation == sd.default_rotation
    IN  IF ~Contains(rotation, p) THEN None
        ELSE LET person_index == IndexOf(rotation, p)
                 next_index == PyMod(person_index + 1, Len(rotation))
             IN  Some(At(rotation, next_index))

\* "if coverage:" -- neither None nor the empty string
Truthy(c) == c # None /\ c.val # ""

RECURSIVE VacationLoop_Last(_, _, _)
\* mutant: a later vacationing person replaces an earlier one
VacationLoop_Last(items, ws, sd) ==
    IF items = <<>> THEN None
    ELSE LET cov == get_vacation_coverage(Head(items).person, ws, sd)
             later == VacationLoop_Last(Tail(items), ws, sd)
         IN  IF later # None THEN later
             ELSE IF ws \in Head(items).weeks /\ Truthy(cov) THEN cov
             ELSE None

RECURSIVE VacationLoop(_, _, _)
\* the for loop over vacation_weeks.items(): Some(cover) when it returns, None when
\* it runs to its end
VacationLoop(items, ws, sd) ==
    IF items = <<>> THEN None
    ELSE LET cov == get_vacation_coverage(Head(items).person, ws, sd)
         IN  IF ws \in Head(items).weeks /\ Truthy(cov) THEN cov
             ELSE VacationLoop(Tail(items), ws, sd)

\* mutant: the offset is not taken from start_week
DefaultRotation_NoStart(ws, sd, special_message) ==
    LET total_weeks == get_total_weeks_since_epoch(ws)
        rotation == sd.default_rotation
    IN  IF ~Returned(total_weeks) THEN total_weeks
        ELSE IF ~Returned(get_total_weeks_since_epoch(sd.start_week))
             THEN get_total_weeks_since_epoch(sd.start_week)
        ELSE IF Len(rotation) = 0 THEN Raise("ZeroDivisionError")
        ELSE Return([person |-> At(rotation, PyMod(total_weeks.val, Len(rotation))),
                     special |-> special_message])

\* mutant: the offset is the difference of the week numbers, the years ignored
DefaultRotation_WeekOnly(ws, sd, special_message) ==
    LET week == get_week_number(ws)
        start == get_week_number(sd.start_week)
        rotation == sd.default_rotation
    IN  IF ~Returned(get_total_weeks_since_epoch(ws))
        THEN get_total_weeks_since_epoch(ws)
        ELSE IF ~Returned(get_total_weeks_since_epoch(sd.start_week))
             THEN get_total_weeks_since_epoch(sd.start_week)
        ELSE IF Len(rotation) = 0 THEN Raise("ZeroDivisionError")
        ELSE Return([person |-> At(rotation, PyMod(week.val - start.val, Len(rotation))),
                     special |-> special_message])

DefaultRotation(ws, sd, special_message) ==
    LET total_weeks == get_total_weeks_since_epoch(ws)
        start_total_weeks == get_total_weeks_since_epoch(sd.start_week)
    IN  IF ~Returned(total_weeks) THEN total_weeks
        ELSE IF ~Returned(start_total_weeks) THEN start_total_weeks
        ELSE LET weeks_since_start == total_weeks.val - start_total_weeks.val
                 rotation == sd.default_rotation
             IN  IF Len(rotation) = 0 THEN Raise("ZeroDivisionError")
                 ELSE LET rotation_index == PyMod(weeks_since_start, Len(rotation))
                      IN  Return([person |-> At(rotation, rotation_index),
                                  special |-> special_message])

\* mutant: the override is looked up before the vacations
get_responsible_person_OverrideFirst(ws, sd) ==
    LET special_message == DictGet(sd.special_messages, ws)
        cov == VacationLoop(sd.vacation_weeks, ws, sd)
    IN  IF ws \in DOMAIN sd.schedule_overrides
        THEN Return([person |-> sd.schedule_overrides[ws], special |-> special_message])
        ELSE IF cov # None
             THEN Return([person |-> cov.val, special |-> special_message])
        ELSE DefaultRotation(ws, sd, special_message)

\* mutant: the overrides are never looked up
get_responsible_person_NoOverride(ws, sd) ==
    LET special_message == DictGet(sd.special_messages, ws)
        cov == VacationLoop(sd.vacation_weeks, ws, sd)
    IN  IF cov # None THEN Return([person |-> cov.val, special |-> special_message])
        ELSE DefaultRotation(ws, sd, special_message)

\* mutant: the vacation branch returns no special message
get_responsible_person_VacationDropsSpecial(ws, sd) ==
    LET special_message == DictGet(sd.special_messages, ws)
        cov == VacationLoop(sd.vacation_weeks, ws, sd)
    IN  IF cov # None THEN Return([person |-> cov.val, special |-> None])
        ELSE IF ws \in DOMAIN sd.schedule_overrides
             THEN Return([person |-> sd.schedule_overrides[ws],
                          special |-> special_message])
        ELSE DefaultRotation(ws, sd, special_message)

get_responsible_person(ws, sd) ==
    LET special_message == DictGet(sd.special_messages, ws)
        cov == VacationLoop(sd.vacation_weeks, ws, sd)
    IN  IF cov # None THEN Return([person |-> cov.val, special |-> special_message])
        ELSE IF ws \in DOMAIN sd.schedule_overrides
             THEN Return([person |-> sd.schedule_overrides[ws],
                          special |-> special_message])
        ELSE DefaultRotation(ws, sd, special_message)

(***************************************************************************)
(* The schedule datasets and weeks the resolver is applied to.             *)
(***************************************************************************)
RotationNames == {"A", "B"}

\* "Z" is a person who is in no rotation
People == RotationNames \cup {"Z"}

Rotations == UNION {[1..n -> RotationNames] : n \in 0..MaxRot}

StartIsoWeeks == {<<2025, 31>>}

StartWeeks == {FormatWeek(yw[1], yw[2]) : yw \in StartIsoWeeks}

\* the weeks the week-keyed mappings of the dataset speak about
KeyWeeks == {FormatWeek(2026, 53)}

PartialMaps(keys, values) == UNION {[d -> values] : d \in SUBSET keys}

SpecialTemplates == {<<"Holiday: ", "{name}">>}

\* vacation_weeks: a mapping in insertion order, its keys distinct; an entry
\* without weeks is drawn only ahead of an entry with weeks
VacationMaps ==
    LET entries == [person : People, weeks : SUBSET KeyWeeks]
        listed == {e \in entries : e.weeks # {}}
    IN  {<<>>} \cup {<<e>> : e \in listed}
        \cup {<<p[1], p[2]>> :
                p \in {q \in entries \X listed : q[1].person # q[2].person}}

Schedules ==
    [default_rotation : Rotations,
     start_week : StartWeeks,
     schedule_overrides : PartialMaps(KeyWeeks, {"A", "Z"}),
     vacation_weeks : VacationMaps,
     special_messages : PartialMaps(KeyWeeks, SpecialTemplates)]

Init ==
    /\ schedule_data \in Schedules
    /\ clock = <<0, 0>>
    /\ week_string = <<>>
    /\ result = Pending
    /\ coverage = None
    /\ args = None /\ environ = None /\ disk = None /\ config = None
    /\ pc = "library"
    /\ bot = None /\ chat_id = None /\ message = None
    /\ sent = <<>> /\ logged = <<>>
    /\ exit_code = None
    /\ success = None
    /\ called = {}

\* one call of get_responsible_person on the loaded dataset
CallGetResponsiblePerson ==
    /\ pc = "library" /\ result = Pending /\ coverage = None
    /\ \E yw \in IsoWeeks :
        /\ clock' = yw
        /\ week_string' = get_current_week_string(yw)
        /\ result' = get_responsible_person(get_current_week_string(yw), schedule_data)
    /\ UNCHANGED <<schedule_data, coverage, main_vars>>

\* one call of get_vacation_coverage on the loaded dataset
CallGetVacationCoverage ==
    /\ pc = "library" /\ result = Pending /\ coverage = None
    /\ \E p \in People, ws \in KeyWeeks :
        coverage' = Some([person |-> p,
                          ret |-> get_vacation_coverage(p, ws, schedule_data)])
    /\ UNCHANGED <<schedule_data, clock, week_string, result, main_vars>>

Next == CallGetResponsiblePerson \/ CallGetVacationCoverage

Spec == Init /\ [][Next]_vars

\* placeholders format() is given no value for
UnknownPlaceholders == {"{day}"}

\* "if special_message:" -- neither None nor the empty string
TruthyText(t) == t # None /\ t.val # <<>>

RECURSIVE StrFormat(_, _, _)
\* template.format(name=name, week=week): a template is a sequence of literal
\* pieces and placeholders; a placeholder other than {name} and {week} raises
StrFormat(template, name, week) ==
    IF template = <<>> THEN Return(<<>>)
    ELSE LET rest == StrFormat(Tail(template), name, week)
             piece == Head(template)
         IN  IF piece = "{name}"
             THEN IF Returned(rest) THEN Return(<<name>> \o rest.val) ELSE rest
             ELSE IF piece = "{week}"
             THEN IF Returned(rest)
                  THEN Return((IF week < 0 THEN <<"-">> \o StrOfNat(0 - week)
                                           ELSE StrOfNat(week)) \o rest.val)
                  ELSE rest
             ELSE IF piece \in UnknownPlaceholders THEN Raise("KeyError")
             ELSE IF Returned(rest) THEN Return(<<piece>> \o rest.val) ELSE rest

\* a format_message that formats the default template whatever the week's
\* special message
format_message_TemplateOnly(template, name, ws, special_message) ==
    LET week_number == get_week_number(ws)
    IN  IF ~Returned(week_number) THEN week_number
        ELSE StrFormat(template, name, week_number.val)

format_message(template, name, ws, special_message) ==
    LET week_number == get_week_number(ws)
    IN  IF ~Returned(week_number) THEN week_number
        ELSE IF TruthyText(special_message)
             THEN StrFormat(special_message.val, name, week_number.val)
        ELSE StrFormat(template, name, week_number.val)

(***************************************************************************)
(* config.py                                                               *)
(***************************************************************************)
\* "if not token:" -- None or the empty string
get_bot_token(env) ==
    IF env.TELEGRAM_BOT_TOKEN = None \/ env.TELEGRAM_BOT_TOKEN.val = ""
    THEN Raise("ValueError")
    ELSE Return(env.TELEGRAM_BOT_TOKEN.val)

get_chat_id(env) ==
    IF env.TELEGRAM_CHAT_ID = None \/ env.TELEGRAM_CHAT_ID.val = ""
    THEN Raise("ValueError")
    ELSE Return(env.TELEGRAM_CHAT_ID.val)

\* a get_test_message that does not read TEST_MESSAGE
get_test_message_Unread(env) == None

get_test_message(env) == env.TEST_MESSAGE

get_force_week(env) ==
    LET force_week == env.FORCE_WEEK
    IN  IF force_week # None /\ force_week.val # <<>>
        THEN LET week_num == PyInt(force_week.val)
             IN  IF week_num = None THEN None
                 ELSE Some(FormatWeek(TestYear, week_num.val))
        ELSE None

(***************************************************************************)
(* bot.py: main, one action for each of its commented steps.  An exception *)
(* raised in a step is caught by main's except clause: it returns 1.       *)
(* called collects the functions the run has called so far.                *)
(***************************************************************************)
\* a main whose except clause returned 0
Fail_ReturnsZero ==
    /\ exit_code' = Some(0)
    /\ pc' = "done"

Fail ==
    /\ exit_code' = Some(1)
    /\ pc' = "done"

\* "Load configuration"
LoadData ==
    /\ pc = "load"
    /\ called' = called \cup {"load_config"}
                        \cup (IF Returned(disk.config) THEN {"load_schedule_data"} ELSE {})
    /\ IF Returned(disk.config) /\ Returned(disk.schedule)
       THEN /\ config' = disk.config.val
            /\ schedule_data' = disk.schedule.val
            /\ pc' = "credentials"
            /\ UNCHANGED exit_code
       ELSE Fail /\ UNCHANGED <<config, schedule_data>>
    /\ UNCHANGED <<clock, week_string, result, coverage, args, environ, disk, bot,
                   chat_id, message, sent, logged, success>>

\* a main that reads the credentials before it looks at dry_run
GetCredentials_AlwaysReads ==
    /\ pc = "credentials"
    /\ called' = called \cup {"get_bot_token"}
            \cup (IF Returned(get_bot_token(environ)) THEN {"get_chat_id"} ELSE {})
            \cup (IF Returned(get_bot_token(environ)) /\ Returned(get_chat_id(environ))
                     /\ ~args.dry_run
                  THEN {"Bot"} ELSE {})
    /\ IF Returned(get_bot_token(environ)) /\ Returned(get_chat_id(environ))
       THEN /\ bot' = IF args.dry_run THEN None ELSE Some(get_bot_token(environ).val)
            /\ chat_id' = IF args.dry_run THEN Some("TEST_CHAT_ID")
                          ELSE Some(get_chat_id(environ).val)
            /\ pc' = "week"
            /\ UNCHANGED exit_code
       ELSE Fail /\ UNCHANGED <<bot, chat_id>>
    /\ UNCHANGED <<rotation_vars, args, environ, disk, config, message, sent, logged,
                   success>>

\* "Get bot credentials"
GetCredentials ==
    /\ pc = "credentials"
    /\ IF ~args.dry_run
       THEN /\ called' = called \cup {"get_bot_token"}
                   \cup (IF Returned(get_bot_token(environ)) THEN {"get_chat_id"} ELSE {})
                   \cup (IF Returned(get_bot_token(environ)) /\ Returned(get_chat_id(environ))
                         THEN {"Bot"} ELSE {})
            /\ IF Returned(get_bot_token(environ)) /\ Returned(get_chat_id(environ))
               THEN /\ bot' = Some(get_bot_token(environ).val)
                    /\ chat_id' = Some(get_chat_id(environ).val)
                    /\ pc' = "week"
                    /\ UNCHANGED exit_code
               ELSE Fail /\ UNCHANGED <<bot, chat_id>>
       ELSE /\ bot' = None
            /\ chat_id' = Some("TEST_CHAT_ID")
            /\ pc' = "week"
            /\ UNCHANGED <<exit_code, called>>
    /\ UNCHANGED <<rotation_vars, args, environ, disk, config, message, sent, logged,
                   success>>

\* "if args.test_week:" -- neither None nor 0
TruthyInt(n) == n # None /\ n.val # 0

\* the zones ZoneInfo has a file for
KnownZones == {"America/Mexico_City"}

\* get_current_week_string(config["timezone"]) at the instant of the run:
\* ZoneInfo raises on a zone it does not know
CurrentWeek(timezone) ==
    IF timezone \in KnownZones THEN Return(get_current_week_string(clock))
    ELSE Raise("ZoneInfoNotFoundError")

\* the week main resolves when determining it does not raise
TargetWeek ==
    IF TruthyInt(args.test_week) THEN FormatWeek(TestYear, args.test_week.val)
    ELSE IF get_force_week(environ) # None THEN get_force_week(environ).val
    ELSE get_current_week_string(clock)

\* "Determine week to use"
DetermineWeek ==
    /\ pc = "week"
    /\ LET forced == ~TruthyInt(args.test_week) /\ get_force_week(environ) # None
           current == ~TruthyInt(args.test_week) /\ get_force_week(environ) = None
       IN  /\ called' = called
                   \cup (IF TruthyInt(args.test_week) THEN {} ELSE {"get_force_week"})
                   \cup (IF current THEN {"get_current_week_string"} ELSE {})
           /\ IF current /\ ~Returned(CurrentWeek(config.timezone))
              THEN Fail /\ UNCHANGED week_string
              ELSE /\ week_string' = TargetWeek
                   /\ pc' = "resolve"
                   /\ UNCHANGED exit_code
    /\ UNCHANGED <<schedule_data, clock, result, coverage, args, environ, disk, config,
                   bot, chat_id, message, sent, logged, success>>

\* "Get responsible person"
Resolve ==
    /\ pc = "resolve"
    /\ result' = get_responsible_person(week_string, schedule_data)
    /\ called' = called \cup {"get_responsible_person"}
    /\ IF Returned(result') THEN pc' = "format" /\ UNCHANGED exit_code ELSE Fail
    /\ UNCHANGED <<schedule_data, clock, week_string, coverage, args, environ, disk,
                   config, bot, chat_id, message, sent, logged, success>>

\* "Format message"
FormatMessage ==
    /\ pc = "format"
    /\ LET test_message == get_test_message(environ)
           formatted == format_message(config.message_template, result.val.person,
                                       week_string, result.val.special)
       IN  IF TruthyText(test_message)
           THEN /\ message' = test_message /\ pc' = "send"
                /\ called' = called \cup {"get_test_message"}
                /\ UNCHANGED exit_code
           ELSE /\ called' = called \cup {"get_test_message", "format_message"}
                /\ IF Returned(formatted)
                   THEN message' = Some(formatted.val) /\ pc' = "send"
                        /\ UNCHANGED exit_code
                   ELSE Fail /\ UNCHANGED message
    /\ UNCHANGED <<rotation_vars, args, environ, disk, config, bot, chat_id, sent,
                   logged, success>>

\* send_message(bot, chat_id, message, dry_run): what it returns, the calls of
\* bot.send_message it makes and the [DRY RUN] text it logs; delivered says
\* whether the network call returns (TRUE) or raises (FALSE)
send_message(to, text, dry_run, delivered) ==
    IF dry_run
    THEN [ret |-> TRUE, calls |-> <<>>, log |-> <<text>>]
    ELSE [ret |-> delivered,
          calls |-> <<[chat_id |-> to, text |-> text, delivered |-> delivered]>>,
          log |-> <<>>]

\* a main that sends again when the attempt failed
SendMessage_Retries ==
    /\ pc = "send" /\ bot # None
    /\ \E delivered \in BOOLEAN :
        LET r == send_message(chat_id.val, message.val, args.dry_run, delivered)
        IN  /\ sent' = sent \o r.calls
            /\ logged' = logged \o r.log
            /\ success' = Some(r.ret)
            /\ exit_code' = IF r.ret THEN Some(0) ELSE exit_code
            /\ pc' = IF r.ret THEN "done" ELSE "send"
    /\ called' = called \cup {"send_message"}
    /\ UNCHANGED <<rotation_vars, args, environ, disk, config, bot, chat_id, message>>

\* "Send message", with a bot: "return 0 if success else 1"
SendMessage ==
    /\ pc = "send" /\ bot # None
    /\ \E delivered \in BOOLEAN :
        LET r == send_message(chat_id.val, message.val, args.dry_run, delivered)
        IN  /\ sent' = sent \o r.calls
            /\ logged' = logged \o r.log
            /\ success' = Some(r.ret)
            /\ exit_code' = Some(IF r.ret THEN 0 ELSE 1)
    /\ called' = called \cup {"send_message"}
    /\ pc' = "done"
    /\ UNCHANGED <<rotation_vars, args, environ, disk, config, bot, chat_id, message>>

\* "Send message", without a bot: "Dry run - no bot needed"
LogDryRun ==
    /\ pc = "send" /\ bot = None
    /\ logged' = Append(logged, message.val)
    /\ exit_code' = Some(0)
    /\ pc' = "done"
    /\ UNCHANGED <<rotation_vars, args, environ, disk, config, bot, chat_id, message,
                   sent, success, called>>

\* send_message called on its own, as tests/test_bot.py calls it
CallSendMessage ==
    /\ pc = "send_message"
    /\ \E delivered \in BOOLEAN :
        LET r == send_message(chat_id.val, message.val, args.dry_run, delivered)
        IN  /\ sent' = sent \o r.calls
            /\ logged' = logged \o r.log
            /\ success' = Some(r.ret)
    /\ called' = called \cup {"send_message"}
    /\ pc' = "returned"
    /\ UNCHANGED <<rotation_vars, args, environ, disk, config, bot, chat_id, message,
                   exit_code>>

(***************************************************************************)
(* The runs of main: command lines, environments, files and instants.      *)
(***************************************************************************)
TestWeeks == {None, Some(0), Some(42)}

ForceWeeks == {None, Some(<<"5">>), Some(<<"a", "b", "c">>)}

TestMessages == {None, Some(<<>>), Some(<<"This is a test message!">>)}

Credentials ==
    {[token |-> Some("TOKEN"), chat |-> Some("CHAT")],
     [token |-> None, chat |-> Some("CHAT")],
     [token |-> Some("TOKEN"), chat |-> Some("")]}

Environments ==
    {[TELEGRAM_BOT_TOKEN |-> c.token, TELEGRAM_CHAT_ID |-> c.chat,
      TEST_MESSAGE |-> m, FORCE_WEEK |-> f] :
        c \in Credentials, m \in TestMessages, f \in ForceWeeks}

Configs ==
    {[timezone |-> "America/Mexico_City", message_template |-> t] :
        t \in {<<"Week ", "{week}", ": ", "{name}">>, <<"Hello ", "{day}">>}}
    \cup {[timezone |-> "Mars/Olympus",
           message_template |-> <<"Week ", "{week}", ": ", "{name}">>]}

MainKeyWeek == FormatWeek(TestYear, 42)

MainSchedules ==
    [default_rotation : {<<"A", "B">>, <<>>},
     start_week : {FormatWeek(2025, 31), <<"b", "a", "d">>},
     schedule_overrides : PartialMaps({MainKeyWeek}, {"Z"}),
     vacation_weeks : {<<>>, <<[person |-> "A", weeks |-> {MainKeyWeek}]>>},
     special_messages :
        PartialMaps({MainKeyWeek}, {<<"Holiday: ", "{name}">>, <<"{day}", "!">>, <<>>})]

Disks ==
    {[config |-> c, schedule |-> sd] :
        c \in {Return(x) : x \in Configs} \cup {Raise("JSONDecodeError")},
        sd \in {Return(x) : x \in MainSchedules} \cup {Raise("FileNotFoundError")}}

\* the instants main runs at: week 42 of each year
MainClocks == {yw \in IsoWeeks : yw[2] = 42}

\* a run of main
InitRun ==
    /\ args \in [dry_run : BOOLEAN, test_week : TestWeeks]
    /\ environ \in Environments
    /\ disk \in Disks
    /\ clock \in MainClocks
    /\ schedule_data = None /\ config = None
    /\ week_string = <<>>
    /\ result = Pending
    /\ coverage = None
    /\ pc = "load"
    /\ bot = None /\ chat_id = None /\ message = None
    /\ sent = <<>> /\ logged = <<>>
    /\ exit_code = None
    /\ success = None
    /\ called = {}

\* a call of send_message on a bot, outside main
InitSendMessage ==
    /\ args \in [dry_run : BOOLEAN, test_week : {None}]
    /\ environ = None /\ disk = None
    /\ clock = <<0, 0>>
    /\ schedule_data = None /\ config = None
    /\ week_string = <<>>
    /\ result = Pending
    /\ coverage = None
    /\ pc = "send_message"
    /\ bot = Some("TOKEN") /\ chat_id = Some("12345")
    /\ message \in {Some(<<"Test message">>), Some(<<>>)}
    /\ sent = <<>> /\ logged = <<>>
    /\ exit_code = None
    /\ success = None
    /\ called = {}

InitMain == InitRun \/ InitSendMessage

NextMain ==
    \/ LoadData
    \/ GetCredentials
    \/ DetermineWeek
    \/ Resolve
    \/ FormatMessage
    \/ SendMessage
    \/ LogDryRun
    \/ CallSendMessage

SpecMain == InitMain /\ [][NextMain]_vars

(***************************************************************************)
(* Vocabulary of the properties of the resolver.  These restate what the   *)
(* dataset says about a week without using the operators above.            *)
(***************************************************************************)
Resolved == result # Pending

Rotation == schedule_data.default_rotation

RotationPeople == {Rotation[i] : i \in 1..Len(Rotation)}

\* the (year, week) the resolved week identifier was formatted from
ResolvedIsoWeek == clock

StartIsoWeek ==
    CHOOSE yw \in StartIsoWeeks : FormatWeek(yw[1], yw[2]) = schedule_data.start_week

\* positions of the vacation entries that hold week ws
VacationersAt(ws) ==
    {i \in 1..Len(schedule_data.vacation_weeks) :
        ws \in schedule_data.vacation_weeks[i].weeks}

\* those among them whose person is in the rotation
CoveredAt(ws) ==
    {i \in VacationersAt(ws) :
        schedule_data.vacation_weeks[i].person \in RotationPeople}

Earliest(positions) == CHOOSE i \in positions : \A j \in positions : i <= j

\* the 1-based positions of p in the rotation
PositionsOf(p) == {i \in 1..Len(Rotation) : Rotation[i] = p}

\* the rotation entry after 1-based position i, wrapping to the first
EntryAfter(i) == Rotation[(i % Len(Rotation)) + 1]

\* the cover of the first vacationing rotation member of week ws
ExpectedCover(ws) ==
    EntryAfter(Earliest(PositionsOf(
        schedule_data.vacation_weeks[Earliest(CoveredAt(ws))].person)))

OverriddenAt(ws) == ws \in DOMAIN schedule_data.schedule_overrides

LinearWeeks(yw) == (yw[1] - 2000) * 52 + yw[2]

RECURSIVE FlooredIndex(_, _)
\* the k in 0..len-1 that differs from offset by a multiple of len
FlooredIndex(offset, len) ==
    IF offset < 0 THEN FlooredIndex(offset + len, len)
    ELSE IF offset >= len THEN FlooredIndex(offset - len, len)
    ELSE offset

ExpectedIndex(yw) ==
    FlooredIndex(LinearWeeks(yw) - LinearWeeks(StartIsoWeek), Len(Rotation))

\* a step from week 53 of a year to week 01 of the next lies within the n weeks after yw
RECURSIVE CrossesWeek53(_, _)
CrossesWeek53(yw, n) ==
    IF n = 0 THEN FALSE
    ELSE yw[2] = 53 \/ CrossesWeek53(NextIsoWeek(yw), n - 1)

PersonFor(yw) ==
    get_responsible_person(FormatWeek(yw[1], yw[2]), schedule_data).val.person

(***************************************************************************)
(* C1: for a well-formed week and a non-empty default_rotation,            *)
(* get_responsible_person returns a person of default_rotation.            *)
(* As stated this fails in the override branch.                            *)
(***************************************************************************)
C1_AlwaysFromRotation ==
    (Resolved /\ Len(Rotation) > 0) =>
        (Returned(result) /\ result.val.person \in RotationPeople)

\* C1 amended: get_responsible_person returns, and the person is one of
\* default_rotation unless the override branch produced it, where it is
\* schedule_overrides[W] whether or not that person is in default_rotation.
C1_FromRotationOrOverride ==
    (Resolved /\ Len(Rotation) > 0) =>
        /\ Returned(result)
        /\ \/ result.val.person \in RotationPeople
           \/ /\ CoveredAt(week_string) = {}
              /\ OverriddenAt(week_string)
              /\ result.val.person = schedule_data.schedule_overrides[week_string]

C1_Witness ==
    /\ Resolved /\ Len(Rotation) > 0
    /\ CoveredAt(week_string) = {} /\ OverriddenAt(week_string)
    /\ Returned(result)
    /\ result.val.person = schedule_data.schedule_overrides[week_string]
    /\ result.val.person \notin RotationPeople

(***************************************************************************)
(* C2: vacation beats override: when a member of default_rotation has W in *)
(* their vacation set and W is a key of schedule_overrides, the result is  *)
(* the vacation cover.                                                     *)
(***************************************************************************)
C2_VacationBeatsOverride ==
    (Resolved /\ CoveredAt(week_string) # {} /\ OverriddenAt(week_string)) =>
        (Returned(result) /\ result.val.person = ExpectedCover(week_string))

C2_Witness ==
    /\ Resolved /\ CoveredAt(week_string) # {} /\ OverriddenAt(week_string)
    /\ schedule_data.schedule_overrides[week_string] # ExpectedCover(week_string)
    /\ result.val.person = ExpectedCover(week_string)

(***************************************************************************)
(* C3: override beats default rotation: when W is a key of                 *)
(* schedule_overrides and nobody has W in their vacation set, the result   *)
(* is schedule_overrides[W].                                               *)
(***************************************************************************)
C3_OverrideBeatsRotation ==
    (Resolved /\ OverriddenAt(week_string) /\ VacationersAt(week_string) = {}) =>
        /\ Returned(result)
        /\ result.val.person = schedule_data.schedule_overrides[week_string]

C3_Witness ==
    /\ Resolved /\ OverriddenAt(week_string) /\ VacationersAt(week_string) = {}
    /\ Len(Rotation) > 0
    /\ Rotation[ExpectedIndex(ResolvedIsoWeek) + 1]
         # schedule_data.schedule_overrides[week_string]
    /\ result.val.person = schedule_data.schedule_overrides[week_string]

(***************************************************************************)
(* C4: get_vacation_coverage returns default_rotation[(i + 1) mod len] for *)
(* a person at index i of default_rotation, and None for a person who is   *)
(* not in it.  As stated (every index i the person is at) this fails when  *)
(* the person is in the rotation twice.                                    *)
(***************************************************************************)
C4_CoverAfterAnyIndex ==
    coverage # None =>
        /\ \A i \in PositionsOf(coverage.val.person) :
                coverage.val.ret = Some(EntryAfter(i))
        /\ PositionsOf(coverage.val.person) = {} => coverage.val.ret = None

\* C4 amended: i is the first index the person is at.
C4_CoverAfterFirstIndex ==
    coverage # None =>
        IF PositionsOf(coverage.val.person) = {}
        THEN coverage.val.ret = None
        ELSE coverage.val.ret =
                Some(EntryAfter(Earliest(PositionsOf(coverage.val.person))))

C4_Witness ==
    /\ coverage # None
    /\ Len(Rotation) = 3
    /\ PositionsOf(coverage.val.person) = {3}
    /\ coverage.val.ret = Some(Rotation[1])

(***************************************************************************)
(* C5: when neither a vacation nor an override applies to W, the result is *)
(* default_rotation[k], k = (total_weeks(W) - total_weeks(start_week)) mod *)
(* len, total_weeks(y, w) = (y - 2000) * 52 + w, the modulo floored, so    *)
(* that k is in [0, len) for weeks before start_week too.                  *)
(***************************************************************************)
C5_DefaultRotationIndex ==
    (/\ Resolved /\ Len(Rotation) > 0
     /\ CoveredAt(week_string) = {} /\ ~OverriddenAt(week_string)) =>
        LET k == ExpectedIndex(ResolvedIsoWeek)
        IN  /\ Returned(result)
            /\ k \in 0..(Len(Rotation) - 1)
            /\ result.val.person = Rotation[k + 1]

\* a week before start_week, resolved to an entry other than the first
C5_Witness ==
    /\ Resolved /\ Len(Rotation) = 3
    /\ CoveredAt(week_string) = {} /\ ~OverriddenAt(week_string)
    /\ LinearWeeks(ResolvedIsoWeek) < LinearWeeks(StartIsoWeek)
    /\ ExpectedIndex(ResolvedIsoWeek) = 2
    /\ result.val.person = Rotation[3]
    /\ Rotation[3] # Rotation[1]

(***************************************************************************)
(* C6: rotation periodicity: when neither W nor the week                   *)
(* len(default_rotation) weeks after W has an override or a vacation       *)
(* applying to it, both weeks resolve to the same person.  As stated this  *)
(* fails when a week 53 lies in between.                                   *)
(***************************************************************************)
Unaffected(ws) == ~OverriddenAt(ws) /\ CoveredAt(ws) = {}

WeekAfterPeriod == AddIsoWeeks(ResolvedIsoWeek, Len(Rotation))

\* yw is unaffected too, and resolves to the person the resolved week has
SamePersonFor(yw) ==
    Unaffected(FormatWeek(yw[1], yw[2])) => result.val.person = PersonFor(yw)

C6_Periodic ==
    (Resolved /\ Len(Rotation) > 0 /\ Unaffected(week_string)) =>
        SamePersonFor(WeekAfterPeriod)

\* C6 amended: ... provided none of the len weeks from W on is a week 53 (the
\* linear count gives week 53 of a year and week 01 of the next the same number).
C6_PeriodicWithoutWeek53 ==
    (/\ Resolved /\ Len(Rotation) > 0 /\ Unaffected(week_string)
     /\ ~CrossesWeek53(ResolvedIsoWeek, Len(Rotation))) =>
        SamePersonFor(WeekAfterPeriod)

\* a period that runs over the end of a 52-week year, in a rotation of two people
C6_Witness ==
    /\ Resolved /\ Len(Rotation) = 3
    /\ RotationPeople = RotationNames
    /\ Unaffected(week_string)
    /\ Unaffected(FormatWeek(WeekAfterPeriod[1], WeekAfterPeriod[2]))
    /\ ~CrossesWeek53(ResolvedIsoWeek, Len(Rotation))
    /\ WeekAfterPeriod[1] = ResolvedIsoWeek[1] + 1
    /\ SamePersonFor(WeekAfterPeriod)

(***************************************************************************)
(* C7: with no overrides or vacations, the person for the calendar week    *)
(* that directly follows W (week + 1 of the same year, or week 01 of the   *)
(* next year after the last week of a year) is the rotation entry directly *)
(* after the one for W, wrapping to index 0.  As stated this fails after   *)
(* week 53 of a year that has 53 weeks.                                    *)
(***************************************************************************)
FollowingWeek == NextIsoWeek(ResolvedIsoWeek)

AdvancesByOne ==
    LET k == ExpectedIndex(ResolvedIsoWeek)
    IN  /\ result.val.person = Rotation[k + 1]
        /\ PersonFor(FollowingWeek) = EntryAfter(k + 1)

FollowingUnaffected ==
    LET yw == FollowingWeek IN Unaffected(FormatWeek(yw[1], yw[2]))

C7_AdvancesEveryWeek ==
    (/\ Resolved /\ Len(Rotation) > 0
     /\ Unaffected(week_string) /\ FollowingUnaffected) =>
        AdvancesByOne

\* C7 amended: ... or week 01 of the next year after week 52 of a year that has
\* 52 weeks; after week 53 the person for week 01 of the next year is the same
\* as for week 53.
C7_AdvancesExceptAfterWeek53 ==
    (/\ Resolved /\ Len(Rotation) > 0
     /\ Unaffected(week_string) /\ FollowingUnaffected) =>
        IF ResolvedIsoWeek[2] = 53
        THEN PersonFor(FollowingWeek) = result.val.person
        ELSE AdvancesByOne

\* from week 52 of a 52-week year to week 01 of the next, to another person
C7_Witness ==
    /\ Resolved /\ Len(Rotation) > 1
    /\ Unaffected(week_string) /\ FollowingUnaffected
    /\ ResolvedIsoWeek[2] = 52 /\ FollowingWeek[2] = 1
    /\ AdvancesByOne
    /\ PersonFor(FollowingWeek) # result.val.person

(***************************************************************************)
(* C8: the second component get_responsible_person returns is              *)
(* special_messages[W] when W is a key of special_messages and None        *)
(* otherwise, whichever branch produced the person.                        *)
(***************************************************************************)
C8_SpecialMessageIndependent ==
    (Resolved /\ Returned(result)) =>
        IF week_string \in DOMAIN schedule_data.special_messages
        THEN result.val.special = Some(schedule_data.special_messages[week_string])
        ELSE result.val.special = None

\* a special message returned by the vacation branch
C8_Witness ==
    /\ Resolved /\ Returned(result)
    /\ CoveredAt(week_string) # {}
    /\ week_string \in DOMAIN schedule_data.special_messages
    /\ result.val.special = Some(schedule_data.special_messages[week_string])

(***************************************************************************)
(* C9: when several people have W in their vacation sets, the result is    *)
(* the rotation entry following the first such person in mapping order,    *)
(* later entries are not looked at and the cover is not resolved again.    *)
(* As stated this fails when the first such person is not in the rotation: *)
(* the loop goes on to the later entries.                                  *)
(***************************************************************************)
FirstVacationer(ws) == schedule_data.vacation_weeks[Earliest(VacationersAt(ws))].person

C9_FirstVacationerHonored ==
    (Resolved /\ Cardinality(VacationersAt(week_string)) > 1) =>
        /\ Returned(result)
        /\ PositionsOf(FirstVacationer(week_string)) # {}
        /\ result.val.person =
              EntryAfter(Earliest(PositionsOf(FirstVacationer(week_string))))

\* C9 amended: ... following the first such person who is in default_rotation
\* (people who are not in default_rotation are passed over), whenever there is one.
C9_FirstCoveredVacationerHonored ==
    (/\ Resolved /\ Cardinality(VacationersAt(week_string)) > 1
     /\ CoveredAt(week_string) # {}) =>
        /\ Returned(result)
        /\ result.val.person = ExpectedCover(week_string)

\* two rotation members on vacation, the second one covering for the first
C9_Witness ==
    /\ Resolved /\ Cardinality(CoveredAt(week_string)) > 1
    /\ Returned(result)
    /\ result.val.person = ExpectedCover(week_string)
    /\ result.val.person # FirstVacationer(week_string)
    /\ \E i \in VacationersAt(week_string) :
          schedule_data.vacation_weeks[i].person = result.val.person

(***************************************************************************)
(* C10: target-week precedence in main: whenever a test week N is given on *)
(* the command line the resolver is called with 2025-W<N, two digits>,     *)
(* whatever FORCE_WEEK says; otherwise, when FORCE_WEEK yields a week,     *)
(* with that week; otherwise with the current week.                        *)
(* The code tests "if args.test_week:", so --test-week 0 counts as absent. *)
(***************************************************************************)
ResolverCalled == pc # "library" /\ result # Pending

\* 2025-W and the two decimal digits of n, for n in 0..99
TwoDigitWeek(n) ==
    <<"2", "0", "2", "5", "-", "W", DigitChars[(n \div 10) + 1], DigitChars[(n % 10) + 1]>>

ExpectedTargetWeek ==
    IF args.test_week # None THEN TwoDigitWeek(args.test_week.val)
    ELSE IF get_force_week(environ) # None THEN get_force_week(environ).val
    ELSE get_current_week_string(clock)

C10_TargetWeekPrecedence ==
    ResolverCalled => week_string = ExpectedTargetWeek

\* The precedence as the code has it: it holds of every test week other than 0.
C10_PrecedenceOfNonZeroTestWeek ==
    (ResolverCalled /\ args.test_week # Some(0)) => week_string = ExpectedTargetWeek

(***************************************************************************)
(* Vocabulary of the properties of main.  A failure of a step is read off  *)
(* the inputs of the run and off what the step left behind.                *)
(***************************************************************************)
MainPositions == {"load", "credentials", "week", "resolve", "format", "send", "done"}

MainRun == pc \in MainPositions

Unset(v) == v = None \/ v = Some("")

LoadError == ~Returned(disk.config) \/ ~Returned(disk.schedule)

CredentialError ==
    /\ ~args.dry_run
    /\ Unset(environ.TELEGRAM_BOT_TOKEN) \/ Unset(environ.TELEGRAM_CHAT_ID)

TimezoneError ==
    "get_current_week_string" \in called /\ config.timezone # "America/Mexico_City"

ResolverError == result # Pending /\ result.exc # ""

FormatError == "format_message" \in called /\ message = None

(***************************************************************************)
(* C11: a failure before delivery -- a config or schedule load error, a    *)
(* missing TELEGRAM_BOT_TOKEN or TELEGRAM_CHAT_ID in a run that is not a   *)
(* dry run, an unknown timezone, a resolver error, a format error -- makes *)
(* main return 1, and no message is handed to the messaging client in that *)
(* run: main goes no further than the failing step.                        *)
(***************************************************************************)
C11_FailureReturnsOne ==
    MainRun =>
        /\ LoadError => pc \in {"load", "done"}
        /\ CredentialError => pc \in {"load", "credentials", "done"}
        /\ (TimezoneError \/ ResolverError \/ FormatError) => pc = "done"
        /\ (LoadError \/ CredentialError \/ TimezoneError \/ ResolverError \/ FormatError)
            => /\ sent = <<>>
               /\ pc = "done" => exit_code = Some(1)

\* a template with an unknown placeholder, in a run that has built its Bot
C11_Witness ==
    /\ pc = "done" /\ FormatError /\ bot # None
    /\ "{day}" \in {config.message_template[i] : i \in DOMAIN config.message_template}
    /\ exit_code = Some(1) /\ sent = <<>>

(***************************************************************************)
(* C12: single best-effort delivery: in a run of main the client's send is *)
(* attempted at most once; main has returned once it is attempted, with 0  *)
(* if the attempt succeeded and 1 if it raised, so that no attempt follows *)
(* a failed one.                                                           *)
(***************************************************************************)
C12_SingleDelivery ==
    MainRun =>
        /\ Len(sent) <= 1
        /\ Len(sent) = 1 =>
            /\ pc = "done"
            /\ sent[1].delivered => exit_code = Some(0)
            /\ ~sent[1].delivered => exit_code = Some(1)

\* the one attempt raised
C12_Witness ==
    /\ MainRun /\ pc = "done"
    /\ Len(sent) = 1 /\ ~sent[1].delivered
    /\ exit_code = Some(1)

(***************************************************************************)
(* C13: a dry run never delivers: with dry_run set, main does not build    *)
(* the Bot, does not read the bot token or the chat id, does not call the  *)
(* client's send, and returns 0 whenever loading, resolving and formatting *)
(* succeed; send_message called with dry_run=True returns True without     *)
(* calling the client.                                                     *)
(***************************************************************************)
C13_DryRunNeverDelivers ==
    ((MainRun \/ pc \in {"send_message", "returned"}) /\ args.dry_run) =>
        /\ sent = <<>>
        /\ MainRun =>
            /\ bot = None
            /\ called \cap {"Bot", "get_bot_token", "get_chat_id", "send_message"} = {}
            /\ (pc = "done" /\ ~LoadError /\ result # Pending /\ ~ResolverError
                    /\ message # None)
                => exit_code = Some(0)
        /\ pc = "returned" => success = Some(TRUE)

\* a dry run that succeeds in an environment without TELEGRAM_BOT_TOKEN
C13_Witness ==
    /\ MainRun /\ args.dry_run /\ pc = "done"
    /\ environ.TELEGRAM_BOT_TOKEN = None
    /\ exit_code = Some(0) /\ Len(logged) = 1 /\ sent = <<>>

(***************************************************************************)
(* Vocabulary of the properties of format_message: the text a template     *)
(* stands for, built from its last piece backwards.                        *)
(***************************************************************************)
Formatted == "format_message" \in called /\ message # None

DecimalOf(c) == CHOOSE d \in 0..9 : DigitChars[d + 1] = c

\* the week-of-year of an identifier YYYY-Wnn, as an integer
WeekOfYear(ws) == 10 * DecimalOf(ws[7]) + DecimalOf(ws[8])

\* an integer of 0..99 in decimal, without padding
Decimal(n) ==
    IF n < 10 THEN <<DigitChars[n + 1]>>
    ELSE <<DigitChars[(n \div 10) + 1], DigitChars[(n % 10) + 1]>>

FilledPiece(piece, name, week) ==
    IF piece = "{name}" THEN <<name>>
    ELSE IF piece = "{week}" THEN Decimal(week)
    ELSE <<piece>>

RECURSIVE FilledUpTo(_, _, _, _)
FilledUpTo(template, n, name, week) ==
    IF n = 0 THEN <<>>
    ELSE FilledUpTo(template, n - 1, name, week) \o FilledPiece(template[n], name, week)

Filled(template) ==
    FilledUpTo(template, Len(template), result.val.person, WeekOfYear(week_string))

(***************************************************************************)
(* C14: format_message formats the week's special message and not the      *)
(* default template whenever a special message is present for the week,    *)
(* with {name} the person and {week} the integer week-of-year of the week  *)
(* identifier; the default template is formatted only when no special      *)
(* message is present.  As stated this fails for a special message that is *)
(* the empty string: the code tests "if special_message:".                 *)
(***************************************************************************)
C14_SpecialWheneverPresent ==
    (MainRun /\ Formatted) =>
        message.val = Filled(IF result.val.special # None THEN result.val.special.val
                             ELSE config.message_template)

\* C14 as the code has it: the special message is formatted when it is present
\* and not empty, the default template otherwise.
C14_SpecialWhenNotEmpty ==
    (MainRun /\ Formatted) =>
        message.val = Filled(IF result.val.special \notin {None, Some(<<>>)}
                             THEN result.val.special.val
                             ELSE config.message_template)

\* a special message formatted, in a run whose default template differs
C14_Witness ==
    /\ MainRun /\ Formatted
    /\ result.val.special = Some(<<"Holiday: ", "{name}">>)
    /\ config.message_template = <<"Week ", "{week}", ": ", "{name}">>
    /\ message.val = <<"Holiday: ", result.val.person>>

(***************************************************************************)
(* Vocabulary of the defects of a schedule dataset.                        *)
(***************************************************************************)
\* YYYY-Wnn
WellFormedWeek(ws) ==
    /\ Len(ws) = 8
    /\ ws[5] = "-" /\ ws[6] = "W"
    /\ \A i \in {1, 2, 3, 4, 7, 8} : \E d \in 1..10 : DigitChars[d] = ws[i]

Defective(sd) == sd.default_rotation = <<>> \/ ~WellFormedWeek(sd.start_week)

\* main has returned from a run that loaded a defective schedule dataset
ReturnedOnDefect ==
    /\ MainRun /\ pc = "done"
    /\ ~LoadError /\ Defective(disk.schedule.val)

(***************************************************************************)
(* C15: an empty default_rotation or a malformed week identifier (the      *)
(* target week or start_week) is always fatal: on a schedule dataset with  *)
(* such a defect main returns 1 and neither delivers nor prints a message, *)
(* whichever of the vacation, override and default-rotation branches       *)
(* applies and whether or not a test-message override is set.              *)
(* The code reads default_rotation by index and start_week only in the     *)
(* default-rotation branch, and the vacation cover only of a rotation      *)
(* member: an override for the week makes main succeed on such a dataset.  *)
(* The target week main builds is well-formed in every run.                *)
(***************************************************************************)
C15_DefectAlwaysFatal ==
    ReturnedOnDefect => exit_code = Some(1) /\ sent = <<>> /\ logged = <<>>

\* What the code does: the defect is fatal when the resolver is called on a
\* week that has no override and no vacation cover.
C15_DefectFatalInDefaultBranch ==
    (/\ ReturnedOnDefect
     /\ ResolverCalled
     /\ ~OverriddenAt(week_string)
     /\ CoveredAt(week_string) = {})
        => ResolverError /\ exit_code = Some(1) /\ sent = <<>> /\ logged = <<>>

\* the target week of every run of main is well-formed
C15_TargetWeekWellFormed ==
    (MainRun /\ ResolverCalled) => WellFormedWeek(week_string)

(***************************************************************************)
(* Vocabulary of the test-message override: what main does with a message  *)
(* once the resolver has returned.                                         *)
(***************************************************************************)
\* main delivered text, or printed it in a dry run, and nothing else
DeliveredOrPrinted(text) ==
    \/ /\ bot = None
       /\ logged = <<text>> /\ sent = <<>>
       /\ exit_code = Some(0)
    \/ /\ bot # None
       /\ Len(sent) = 1 /\ sent[1].text = text /\ logged = <<>>
       /\ exit_code = Some(IF sent[1].delivered THEN 0 ELSE 1)

\* past the resolver, the run uses the override and nothing else
OverrideUsed ==
    /\ pc \in {"format", "send", "done"}
    /\ "format_message" \notin called
    /\ message # None => message = environ.TEST_MESSAGE
    /\ pc \in {"send", "done"} => message # None
    /\ pc = "done" => DeliveredOrPrinted(environ.TEST_MESSAGE.val)

(***************************************************************************)
(* C16: the test-message override bypasses formatting: when a test message *)
(* override is set, the message main delivers (or prints in a dry run) is  *)
(* exactly the override, format_message is not called, and the outcome     *)
(* does not depend on message_template, on the week's special message or   *)
(* on the resolved person.  As stated this fails for TEST_MESSAGE set to    *)
(* the empty string: the code tests "if test_message:".                    *)
(***************************************************************************)
C16_OverrideWheneverSet ==
    (MainRun /\ ResolverCalled /\ ~ResolverError /\ environ.TEST_MESSAGE # None)
        => OverrideUsed

\* C16 as the code has it: of an override that is set and not empty.
C16_OverrideWhenNotEmpty ==
    (MainRun /\ ResolverCalled /\ ~ResolverError
        /\ environ.TEST_MESSAGE \notin {None, Some(<<>>)})
        => OverrideUsed

\* the override printed by a run whose template and special message both
\* name a placeholder format_message would raise on
C16_Witness ==
    /\ MainRun /\ pc = "done" /\ ResolverCalled /\ ~ResolverError
    /\ environ.TEST_MESSAGE = Some(<<"This is a test message!">>)
    /\ config.message_template = <<"Hello ", "{day}">>
    /\ result.val.special = Some(<<"{day}", "!">>)
    /\ logged = <<environ.TEST_MESSAGE.val>>
    /\ exit_code = Some(0)

====
